---- MODULE Spec2Model ----
(***************************************************************************)
(* Model of translator_utils.py of PDF-Translator: the batched translation *)
(* pipeline translate_content and the heading heuristic of create_docx.    *)
(*                                                                         *)
(* A text is kept run-length encoded: a sequence of runs [ch, n] with      *)
(* n >= 1 and no two neighbouring runs of the same character.  Python's    *)
(* len, str.strip, str.join and str.split("|||") are computed on that      *)
(* encoding, so the 4000-character threshold keeps its real value.         *)
(* Python positions are 0-based; the model's positions are 1-based.        *)
(***************************************************************************)
EXTENDS Integers, Sequences, FiniteSets, TLC

\* ---------------------------------------------------------------- bounds
MaxBlocks == 3
MaxDocBlocks == 3

\* ------------------------------------------------------------ characters
SP == "sp"
NL == "nl"
PIPE == "pipe"

IsSpace(c) == c \in {SP, NL}

Run(c, n) == [ch |-> c, n |-> n]

\* ------------------------------------------------------- string helpers
Last(s) == s[Len(s)]

Front(s) == SubSeq(s, 1, Len(s) - 1)

\* a + b on strings
concat(a, b) ==
    IF a = <<>> THEN b
    ELSE IF b = <<>> THEN a
    ELSE IF Last(a).ch = Head(b).ch
         THEN Front(a) \o <<Run(Head(b).ch, Last(a).n + Head(b).n)>> \o Tail(b)
         ELSE a \o b

\* canonical form of a sequence of runs (drops empty runs, merges neighbours)
RECURSIVE Norm(_)
Norm(t) ==
    IF t = <<>> THEN <<>>
    ELSE concat(IF Head(t).n = 0 THEN <<>> ELSE <<Head(t)>>, Norm(Tail(t)))

\* len(text)
RECURSIVE len(_)
len(t) == IF t = <<>> THEN 0 ELSE Head(t).n + len(Tail(t))

\* text.strip()
strip(t) ==
    LET keep == {j \in 1..Len(t) : ~IsSpace(t[j].ch)}
    IN  IF keep = {} THEN <<>>
        ELSE SubSeq(t, CHOOSE j \in keep : \A m \in keep : j <= m,
                       CHOOSE j \in keep : \A m \in keep : j >= m)

\* SEPARATOR = "\n|||\n"
SEPARATOR == <<Run(NL, 1), Run(PIPE, 3), Run(NL, 1)>>

\* sep.join(texts)
RECURSIVE join(_, _)
join(sep, texts) ==
    IF texts = <<>> THEN <<>>
    ELSE IF Len(texts) = 1 THEN texts[1]
    ELSE concat(concat(texts[1], sep), join(sep, Tail(texts)))

\* text.split("|||"): non-overlapping occurrences, scanned left to right
RECURSIVE splitFrom(_, _, _)
splitFrom(t, parts, cur) ==
    IF t = <<>> THEN Append(parts, cur)
    ELSE LET r == Head(t) IN
         IF r.ch # PIPE \/ r.n < 3
         THEN splitFrom(Tail(t), parts, concat(cur, <<r>>))
         ELSE LET q == r.n \div 3
                  rest == r.n % 3
              IN splitFrom(Tail(t),
                           Append(parts, cur) \o [j \in 1..(q - 1) |-> <<>>],
                           IF rest = 0 THEN <<>> ELSE <<Run(PIPE, rest)>>)

split(t) == splitFrom(t, <<>>, <<>>)

\* ------------------------------------------------------------ the inputs
T_empty == <<>>
T_blank == <<Run(SP, 2)>>
T_padded == <<Run(SP, 1), Run("a", 3), Run(NL, 1)>>
T_2000 == <<Run("b", 2000)>>
T_1995 == <<Run("d", 1995)>>
T_4001 == <<Run("c", 4001)>>
T_pipes == <<Run("a", 1), Run(PIPE, 3), Run("d", 1)>>

\* a block is {'text': str, 'size': float}
Block(t, s) == [text |-> t, size |-> s]

FragmentChoices ==
    { Block(T_empty, 12), Block(T_blank, 12), Block(T_padded, 24),
      Block(T_2000, 12), Block(T_1995, 14), Block(T_4001, 12),
      Block(T_pipes, 12) }

SeqsUpTo(S, n) == UNION {[1..m -> S] : m \in 0..n}

\* -------------------------------------------------- the translation provider
\* GoogleTranslator.translate is external: it returns some string or raises.
\* The provider's rendering of a character (whitespace and "|" survive).
TrChar(c) ==
    CASE c = "a" -> "A"
      [] c = "b" -> "B"
      [] c = "c" -> "C"
      [] c = "d" -> "D"
      [] OTHER -> c

Tr(t) == [j \in 1..Len(t) |-> Run(TrChar(t[j].ch), t[j].n)]

\* the newlines around separators come back as spaces
Padded(t) == Norm([j \in 1..Len(t) |-> Run(IF t[j].ch = NL THEN SP ELSE t[j].ch, t[j].n)])

\* the first "|||" is eaten
RECURSIVE DropFirstSep(_)
DropFirstSep(t) ==
    IF t = <<>> THEN <<>>
    ELSE IF Head(t).ch = PIPE /\ Head(t).n >= 3
         THEN <<Run(PIPE, Head(t).n - 3)>> \o Tail(t)
         ELSE <<Head(t)>> \o DropFirstSep(Tail(t))

\* the outcome of one call: a returned string, or an exception
Returned(t) == [ok |-> TRUE, text |-> t]

Raised == [ok |-> FALSE, text |-> <<>>]

\* what translator.translate(text) may do
Translate(text) ==
    { Returned(Tr(text)),
      Returned(Padded(Tr(text))),
      Returned(Norm(DropFirstSep(Tr(text)))),
      Raised }

\* ------------------------------------------------------------------ state
VARIABLES
    content_blocks,        \* the argument of translate_content
    pc,                    \* position in translate_content / create_docx
    i,                     \* enumerate(content_blocks) cursor
    batches,               \* list of {'text', 'indices'}
    current_batch_text,
    current_batch_indices,
    current_char_count,
    results,
    bi,                    \* cursor of "for batch in batches"
    fi,                    \* cursor of "for idx in indices" in a fallback
    calls,                 \* history: every translator.translate call
    writes,                \* history: every assignment to results[idx]['text']
    translated_blocks,     \* the argument of create_docx
    mode_size,
    di,                    \* cursor of "for block in translated_blocks"
    doc                    \* what was added to the Document

vars == <<content_blocks, pc, i, batches, current_batch_text,
          current_batch_indices, current_char_count, results, bi, fi,
          calls, writes, translated_blocks, mode_size, di, doc>>

batchVars == <<batches, current_batch_text, current_batch_indices,
               current_char_count>>

docVars == <<translated_blocks, mode_size, di, doc>>

MAX_CHARS == 4000

\* ------------------------------------------------------ translate_content
Init ==
    /\ content_blocks \in SeqsUpTo(FragmentChoices, MaxBlocks)
    /\ pc = "batching"
    /\ i = 1
    /\ batches = <<>>
    /\ current_batch_text = <<>>
    /\ current_batch_indices = <<>>
    /\ current_char_count = 0
    /\ results = <<>>
    /\ bi = 1
    /\ fi = 1
    /\ calls = <<>>
    /\ writes = <<>>
    /\ translated_blocks = <<>>
    /\ mode_size = 12
    /\ di = 1
    /\ doc = <<>>

\* text = block['text'].strip(); "if not text"
IsSkippedOnlyEmpty(block) == block.text = <<>>

IsSkipped(block) == strip(block.text) = <<>>

\* current_char_count + len(text) > 4000
ExceedsLimit(count, text) == count + len(text) > MAX_CHARS

\* {'text': SEPARATOR.join(current_batch_text), 'indices': current_batch_indices}
MakeBatch(texts, indices) == [text |-> join(SEPARATOR, texts), indices |-> indices]

InBatchLoop == pc = "batching" /\ i <= Len(content_blocks)

BatchSkip ==
    /\ InBatchLoop
    /\ IsSkipped(content_blocks[i])
    /\ i' = i + 1
    /\ UNCHANGED <<content_blocks, pc, batchVars, results, bi, fi, calls,
                   writes, docVars>>

BatchCommitDropsCurrent ==
    /\ InBatchLoop
    /\ ~IsSkipped(content_blocks[i])
    /\ ExceedsLimit(current_char_count, strip(content_blocks[i].text))
    /\ batches' = Append(batches, MakeBatch(current_batch_text, current_batch_indices))
    /\ current_batch_text' = <<>>
    /\ current_batch_indices' = <<>>
    /\ current_char_count' = 0
    /\ i' = i + 1
    /\ UNCHANGED <<content_blocks, pc, results, bi, fi, calls, writes, docVars>>

BatchCommit ==
    /\ InBatchLoop
    /\ ~IsSkipped(content_blocks[i])
    /\ LET text == strip(content_blocks[i].text) IN
       /\ ExceedsLimit(current_char_count, text)
       /\ batches' = Append(batches, MakeBatch(current_batch_text, current_batch_indices))
       /\ current_batch_text' = <<text>>
       /\ current_batch_indices' = <<i>>
       /\ current_char_count' = len(text)
    /\ i' = i + 1
    /\ UNCHANGED <<content_blocks, pc, results, bi, fi, calls, writes, docVars>>

BatchAppend ==
    /\ InBatchLoop
    /\ ~IsSkipped(content_blocks[i])
    /\ LET text == strip(content_blocks[i].text) IN
       /\ ~ExceedsLimit(current_char_count, text)
       /\ current_batch_text' = Append(current_batch_text, text)
       /\ current_batch_indices' = Append(current_batch_indices, i)
       /\ current_char_count' = current_char_count + len(text) + len(SEPARATOR)
    /\ i' = i + 1
    /\ UNCHANGED <<content_blocks, pc, batches, results, bi, fi, calls,
                   writes, docVars>>

\* results = [b.copy() for b in content_blocks]
CopyBlocks(blocks) == [j \in 1..Len(blocks) |-> blocks[j]]

\* end of the loop: commit the last batch, copy the blocks
CommitLast ==
    /\ pc = "batching"
    /\ i > Len(content_blocks)
    /\ batches' = IF current_batch_text # <<>>
                  THEN Append(batches, MakeBatch(current_batch_text, current_batch_indices))
                  ELSE batches
    /\ results' = CopyBlocks(content_blocks)
    /\ pc' = "translate"
    /\ bi' = 1
    /\ UNCHANGED <<content_blocks, i, current_batch_text, current_batch_indices,
                   current_char_count, fi, calls, writes, docVars>>

\* parts = [p.strip() for p in translated_chunk.split("|||")]
PartsUnstripped(translated_chunk) == split(translated_chunk)

Parts(translated_chunk) ==
    LET raw == split(translated_chunk)
    IN  [j \in 1..Len(raw) |-> strip(raw[j])]

\* results[idx]['text'] = part
SetTextResetSize(block, t) == [text |-> t, size |-> 12]

SetText(block, t) == [block EXCEPT !.text = t]

\* for idx, part in zip(indices, parts): results[idx]['text'] = part
RECURSIVE Scatter(_, _, _)
Scatter(res, indices, parts) ==
    IF indices = <<>> \/ parts = <<>> THEN res
    ELSE Scatter([res EXCEPT ![Head(indices)] = SetText(@, Head(parts))],
                 Tail(indices), Tail(parts))

CallRecord(kind, idx, text, r) ==
    [kind |-> kind, batch |-> bi, idx |-> idx, text |-> text,
     ok |-> r.ok, ret |-> r.text]

WriteRecords(indices) == [j \in 1..Len(indices) |-> [batch |-> bi, idx |-> indices[j]]]

InTranslateLoop == pc = "translate" /\ bi <= Len(batches)

\* the combined call returns and the part count matches: fast path
CombinedAligned ==
    /\ InTranslateLoop
    /\ LET full_text == batches[bi].text
           indices == batches[bi].indices
       IN \E r \in Translate(full_text) :
            /\ r.ok
            /\ Len(Parts(r.text)) = Len(indices)
            /\ results' = Scatter(results, indices, Parts(r.text))
            /\ calls' = Append(calls, CallRecord("combined", 0, full_text, r))
            /\ writes' = writes \o WriteRecords(indices)
    /\ bi' = bi + 1
    /\ UNCHANGED <<content_blocks, pc, i, batchVars, fi, docVars>>

\* the combined call returns and the part count differs: else branch
CombinedMisaligned ==
    /\ InTranslateLoop
    /\ LET full_text == batches[bi].text
           indices == batches[bi].indices
       IN \E r \in Translate(full_text) :
            /\ r.ok
            /\ Len(Parts(r.text)) # Len(indices)
            /\ calls' = Append(calls, CallRecord("combined", 0, full_text, r))
    /\ pc' = "fallback_mismatch"
    /\ fi' = 1
    /\ UNCHANGED <<content_blocks, i, batchVars, results, bi, writes, docVars>>

\* the combined call raises: except branch
CombinedRaises ==
    /\ InTranslateLoop
    /\ LET full_text == batches[bi].text
       IN \E r \in Translate(full_text) :
            /\ ~r.ok
            /\ calls' = Append(calls, CallRecord("combined", 0, full_text, r))
    /\ pc' = "fallback_except"
    /\ fi' = 1
    /\ UNCHANGED <<content_blocks, i, batchVars, results, bi, writes, docVars>>

\* "for idx in indices" of the fallback of the current batch
FallbackAllIndices(b) == [j \in 1..Len(content_blocks) |-> j]

FallbackIndices(b) == batches[b].indices

\* translator.translate(content_blocks[idx]['text'])
IndividualInput(idx) == content_blocks[idx].text

InFallbackLoop ==
    /\ pc \in {"fallback_mismatch", "fallback_except"}
    /\ fi <= Len(FallbackIndices(bi))

IndividualOk ==
    /\ InFallbackLoop
    /\ LET idx == FallbackIndices(bi)[fi]
       IN \E r \in Translate(IndividualInput(idx)) :
            /\ r.ok
            /\ results' = [results EXCEPT ![idx] = SetText(@, r.text)]
            /\ calls' = Append(calls, CallRecord("individual", idx, IndividualInput(idx), r))
            /\ writes' = Append(writes, [batch |-> bi, idx |-> idx])
    /\ fi' = fi + 1
    /\ UNCHANGED <<content_blocks, pc, i, batchVars, bi, docVars>>

IndividualRaisesBreaks ==
    /\ InFallbackLoop
    /\ LET idx == FallbackIndices(bi)[fi]
       IN \E r \in Translate(IndividualInput(idx)) :
            /\ ~r.ok
            /\ calls' = Append(calls, CallRecord("individual", idx, IndividualInput(idx), r))
    /\ fi' = Len(FallbackIndices(bi)) + 1
    /\ UNCHANGED <<content_blocks, pc, i, batchVars, results, bi, writes, docVars>>

\* except: pass  (keep original)
IndividualRaises ==
    /\ InFallbackLoop
    /\ LET idx == FallbackIndices(bi)[fi]
       IN \E r \in Translate(IndividualInput(idx)) :
            /\ ~r.ok
            /\ calls' = Append(calls, CallRecord("individual", idx, IndividualInput(idx), r))
    /\ fi' = fi + 1
    /\ UNCHANGED <<content_blocks, pc, i, batchVars, results, bi, writes, docVars>>

FallbackDone ==
    /\ pc \in {"fallback_mismatch", "fallback_except"}
    /\ fi > Len(FallbackIndices(bi))
    /\ pc' = "translate"
    /\ bi' = bi + 1
    /\ UNCHANGED <<content_blocks, i, batchVars, results, fi, calls, writes, docVars>>

\* return results
Return ==
    /\ pc = "translate"
    /\ bi > Len(batches)
    /\ pc' = "done"
    /\ UNCHANGED <<content_blocks, i, batchVars, results, bi, fi, calls, writes, docVars>>

Next ==
    \/ BatchSkip
    \/ BatchCommit
    \/ BatchAppend
    \/ CommitLast
    \/ CombinedAligned
    \/ CombinedMisaligned
    \/ CombinedRaises
    \/ IndividualOk
    \/ IndividualRaises
    \/ FallbackDone
    \/ Return

Spec == Init /\ [][Next]_vars

\* ------------------------------------------------------------ create_docx
DocSizes == {12, 13, 14, 17, 18, 22, 23}

DocBlockChoices == {Block(<<Run("A", 3)>>, s) : s \in DocSizes}

InitDocx ==
    /\ translated_blocks \in SeqsUpTo(DocBlockChoices, MaxDocBlocks)
    /\ pc = "docx_mode"
    /\ mode_size = 12
    /\ di = 1
    /\ doc = <<>>
    /\ content_blocks = <<>>
    /\ i = 1
    /\ batches = <<>>
    /\ current_batch_text = <<>>
    /\ current_batch_indices = <<>>
    /\ current_char_count = 0
    /\ results = <<>>
    /\ bi = 1
    /\ fi = 1
    /\ calls = <<>>
    /\ writes = <<>>

translateVars == <<content_blocks, i, batchVars, results, bi, fi, calls, writes>>

\* sizes.count(s)
Count(blocks, s) == Cardinality({j \in 1..Len(blocks) : blocks[j].size = s})

\* max(set(sizes), key=sizes.count): a most frequent size; which one among
\* equally frequent sizes depends on the iteration order of the set
ModeCandidates(blocks) ==
    LET sizes == {blocks[j].size : j \in 1..Len(blocks)}
    IN  {s \in sizes : \A u \in sizes : Count(blocks, s) >= Count(blocks, u)}

ModeSize ==
    /\ pc = "docx_mode"
    /\ IF translated_blocks # <<>>
       THEN mode_size' \in ModeCandidates(translated_blocks)
       ELSE mode_size' = 12
    /\ pc' = "docx_blocks"
    /\ di' = 1
    /\ UNCHANGED <<translated_blocks, doc, translateVars>>

\* the level of the heading create_docx asks for, 0 for a body paragraph
HeadingLevelInclusive(size, mode) ==
    IF size >= mode + 10 THEN 1
    ELSE IF size >= mode + 5 THEN 2
    ELSE IF size >= mode + 2 THEN 3
    ELSE 0

HeadingLevel(size, mode) ==
    IF size >= mode + 2
    THEN LET diff == size - mode
         IN  IF diff > 10 THEN 1
             ELSE IF diff > 5 THEN 2
             ELSE 3
    ELSE 0

Entry(kind, level, text, raised) ==
    [kind |-> kind, level |-> level, text |-> text, raised |-> raised]

InDocLoop == pc = "docx_blocks" /\ di <= Len(translated_blocks)

\* doc.add_heading(text, level=...)
AddHeading ==
    /\ InDocLoop
    /\ LET block == translated_blocks[di]
           level == HeadingLevel(block.size, mode_size)
       IN /\ level > 0
          /\ doc' = Append(doc, Entry("heading", level, block.text, FALSE))
    /\ di' = di + 1
    /\ UNCHANGED <<translated_blocks, mode_size, pc, translateVars>>

\* add_heading raises: except: doc.add_paragraph(text)
AddHeadingRaises ==
    /\ InDocLoop
    /\ LET block == translated_blocks[di]
           level == HeadingLevel(block.size, mode_size)
       IN /\ level > 0
          /\ doc' = Append(doc, Entry("paragraph", 0, block.text, TRUE))
    /\ di' = di + 1
    /\ UNCHANGED <<translated_blocks, mode_size, pc, translateVars>>

\* else: doc.add_paragraph(text)
AddParagraph ==
    /\ InDocLoop
    /\ LET block == translated_blocks[di]
       IN /\ HeadingLevel(block.size, mode_size) = 0
          /\ doc' = Append(doc, Entry("paragraph", 0, block.text, FALSE))
    /\ di' = di + 1
    /\ UNCHANGED <<translated_blocks, mode_size, pc, translateVars>>

\* doc.save(buffer); return buffer
Save ==
    /\ pc = "docx_blocks"
    /\ di > Len(translated_blocks)
    /\ pc' = "docx_done"
    /\ UNCHANGED <<translated_blocks, mode_size, di, doc, translateVars>>

NextDocx ==
    \/ ModeSize
    \/ AddHeading
    \/ AddHeadingRaises
    \/ AddParagraph
    \/ Save

SpecDocx == InitDocx /\ [][NextDocx]_vars

\* =============================================================== properties
Copied == pc \in {"translate", "fallback_mismatch", "fallback_except", "done"}

Positions == 1..Len(content_blocks)

RECURSIVE Flatten(_)
Flatten(bs) == IF bs = <<>> THEN <<>> ELSE Head(bs).indices \o Flatten(Tail(bs))

Range(s) == {s[j] : j \in 1..Len(s)}

IsBlank(p) == strip(content_blocks[p].text) = <<>>

NonEmptyPositions ==
    LET Keep(p) == ~IsBlank(p)
    IN  SelectSeq([p \in Positions |-> p], Keep)

CallsOf(kind, b) ==
    LET Pick(c) == c.kind = kind /\ c.batch = b
    IN  SelectSeq(calls, Pick)

IdxOf(cs) == [j \in 1..Len(cs) |-> cs[j].idx]

\* the batches whose combined call has been answered, and how
Answered(b) == CallsOf("combined", b) # <<>>

Answer(b) == CallsOf("combined", b)[1]

PartCount(text) == Len(split(text))

FellBack(b) ==
    /\ Answered(b)
    /\ \/ ~Answer(b).ok
       \/ PartCount(Answer(b).ret) # Len(batches[b].indices)

Aligned(b) ==
    /\ Answered(b)
    /\ Answer(b).ok
    /\ PartCount(Answer(b).ret) = Len(batches[b].indices)

Finished(b) == bi > b

\* C1: the returned list has the length of the input, and position by
\* position the size of the input block; only the text may differ.
C1_OrderPreserved ==
    Copied =>
        /\ Len(results) = Len(content_blocks)
        /\ \A p \in Positions :
              /\ DOMAIN results[p] = {"text", "size"}
              /\ results[p].size = content_blocks[p].size

C1_Witness ==
    /\ pc = "done"
    /\ \E p, q \in Positions :
          /\ results[p].text # content_blocks[p].text
          /\ results[q].text = content_blocks[q].text
          /\ content_blocks[p].size # content_blocks[q].size
    /\ \E j \in 1..Len(calls) : ~calls[j].ok
    /\ \E b \in 1..Len(batches) : Aligned(b)

\* C2 (as claimed): every batch's combined text is at most 4000 characters
\* long, unless its only member alone is longer than 4000 characters.
C2_BudgetRespected ==
    \A b \in 1..Len(batches) :
        \/ len(batches[b].text) <= MAX_CHARS
        \/ /\ Len(batches[b].indices) = 1
           /\ len(strip(content_blocks[batches[b].indices[1]].text)) > MAX_CHARS

\* C3: the index lists of the batches, concatenated in batch order, are the
\* increasing list of the positions whose trimmed text is non-empty.
C3_IndicesPartition ==
    Copied => Flatten(batches) = NonEmptyPositions

C3_Witness ==
    /\ pc = "done"
    /\ Len(batches) >= 2
    /\ \A b \in 1..Len(batches) : batches[b].indices # <<>>
    /\ \E p, q \in Positions : p < q /\ IsBlank(p) /\ ~IsBlank(q)

\* C4: a batch whose combined answer has the wrong part count, or whose
\* combined call raised, gets exactly one individual call per member, in
\* member order; individual calls and writes made while a batch is
\* processed concern that batch's members only.
C4_FallbackPerMember ==
    /\ \A b \in 1..Len(batches) :
          (FellBack(b) /\ Finished(b)) =>
              IdxOf(CallsOf("individual", b)) = batches[b].indices
    /\ \A j \in 1..Len(calls) :
          calls[j].kind = "individual" =>
              /\ FellBack(calls[j].batch)
              /\ calls[j].idx \in Range(batches[calls[j].batch].indices)
    /\ \A j \in 1..Len(writes) :
          writes[j].idx \in Range(batches[writes[j].batch].indices)

C4_Witness ==
    /\ pc = "done"
    /\ \E b, c \in 1..Len(batches) :
          /\ b # c
          /\ FellBack(b)
          /\ Answer(b).ok
          /\ Len(batches[b].indices) >= 2
          /\ FellBack(c)
          /\ ~Answer(c).ok

\* C5: whatever calls fail, every batch is processed and the function
\* returns; a member whose individual call raised keeps its original text,
\* and the other members of its batch and the later batches are attempted.
C5_FailuresContained ==
    pc = "done" =>
          /\ \A b \in 1..Len(batches) : Answered(b)
          /\ \A b \in 1..Len(batches) :
                FellBack(b) =>
                    Range(IdxOf(CallsOf("individual", b))) = Range(batches[b].indices)
          /\ \A j \in 1..Len(calls) :
                (calls[j].kind = "individual" /\ ~calls[j].ok) =>
                    results[calls[j].idx].text = content_blocks[calls[j].idx].text

C5_Witness ==
    /\ pc = "done"
    /\ \E j, m \in 1..Len(calls) :
          /\ j < m
          /\ calls[j].kind = "individual"
          /\ ~calls[j].ok
          /\ calls[m].kind = "individual"
          /\ calls[m].batch = calls[j].batch
          /\ calls[m].ok
    /\ \E j, m \in 1..Len(calls) :
          /\ j < m
          /\ ~calls[j].ok
          /\ calls[m].kind = "combined"

\* C6: when the combined answer of a batch of N members splits into N
\* parts, the k-th part, trimmed, is the text of the result at the k-th
\* member position, and no individual call is made for the batch.
C6_FastPath ==
    \A b \in 1..Len(batches) :
        (Aligned(b) /\ Finished(b)) =>
            /\ \A k \in 1..Len(batches[b].indices) :
                  results[batches[b].indices[k]].text
                      = strip(split(Answer(b).ret)[k])
            /\ CallsOf("individual", b) = <<>>

C6_Witness ==
    /\ pc = "done"
    /\ \E b \in 1..Len(batches) :
          /\ Aligned(b)
          /\ Len(batches[b].indices) >= 2
          /\ \E k \in 1..Len(batches[b].indices) :
                split(Answer(b).ret)[k] # strip(split(Answer(b).ret)[k])
          /\ results[batches[b].indices[1]].text # results[batches[b].indices[2]].text

\* C7: a block whose text is empty or only whitespace is in no batch, is
\* the subject of no call and no write, and keeps its text in the result.
C7_BlankPassthrough ==
    \A p \in Positions :
        IsBlank(p) =>
            /\ p \notin Range(current_batch_indices)
            /\ \A b \in 1..Len(batches) : p \notin Range(batches[b].indices)
            /\ \A j \in 1..Len(calls) : calls[j].idx # p
            /\ \A j \in 1..Len(writes) : writes[j].idx # p
            /\ Copied => results[p].text = content_blocks[p].text

C7_Witness ==
    /\ pc = "done"
    /\ \E p, q \in Positions :
          /\ IsBlank(p)
          /\ content_blocks[p].text # <<>>
          /\ p < q
          /\ results[q].text # content_blocks[q].text
    /\ \E j \in 1..Len(calls) : calls[j].kind = "individual"

\* C9 (as claimed): the text of every individual call is the block's
\* original text trimmed of leading and trailing whitespace.
C9_FallbackSendsTrimmed ==
    \A j \in 1..Len(calls) :
        calls[j].kind = "individual" =>
            calls[j].text = strip(content_blocks[calls[j].idx].text)

\* C10 (as claimed): every committed batch has at least one member, and
\* no combined call is made with an empty text.
C10_NoEmptyBatch ==
    /\ \A b \in 1..Len(batches) : Len(batches[b].indices) >= 1
    /\ \A j \in 1..Len(calls) :
          calls[j].kind = "combined" => calls[j].text # <<>>

\* C8 (as claimed): size >= mode+10 gives a level-1 heading, otherwise
\* size >= mode+5 level 2, otherwise size >= mode+2 level 3, otherwise a
\* body paragraph.
C8_InclusiveThresholds ==
    \A j \in 1..Len(doc) :
        LET size == translated_blocks[j].size IN
        ~doc[j].raised =>
            /\ size >= mode_size + 10 => (doc[j].kind = "heading" /\ doc[j].level = 1)
            /\ (size < mode_size + 10 /\ size >= mode_size + 5)
                  => (doc[j].kind = "heading" /\ doc[j].level = 2)
            /\ (size < mode_size + 5 /\ size >= mode_size + 2)
                  => (doc[j].kind = "heading" /\ doc[j].level = 3)
            /\ size < mode_size + 2 => doc[j].kind = "paragraph"

\* C8 (amended): size > mode+10 gives a level-1 heading, otherwise
\* size > mode+5 level 2, otherwise size >= mode+2 level 3, otherwise a
\* body paragraph; a heading whose add_heading call raises is written as a
\* body paragraph.
C8_StrictThresholds ==
    /\ pc \in {"docx_blocks", "docx_done"} =>
          (translated_blocks = <<>> => mode_size = 12)
          /\ (translated_blocks # <<>> =>
                \A j \in 1..Len(translated_blocks) :
                    Count(translated_blocks, mode_size)
                        >= Count(translated_blocks, translated_blocks[j].size))
    /\ \A j \in 1..Len(doc) :
          LET size == translated_blocks[j].size IN
          /\ doc[j].raised => (size >= mode_size + 2 /\ doc[j].kind = "paragraph")
          /\ ~doc[j].raised =>
                /\ size > mode_size + 10 => (doc[j].kind = "heading" /\ doc[j].level = 1)
                /\ (size <= mode_size + 10 /\ size > mode_size + 5)
                      => (doc[j].kind = "heading" /\ doc[j].level = 2)
                /\ (size <= mode_size + 5 /\ size >= mode_size + 2)
                      => (doc[j].kind = "heading" /\ doc[j].level = 3)
                /\ size < mode_size + 2 => doc[j].kind = "paragraph"

C8_Witness ==
    /\ pc = "docx_done"
    /\ \E j, k, m \in 1..Len(doc) :
          /\ translated_blocks[j].size = mode_size + 10
          /\ doc[j].kind = "heading" /\ doc[j].level = 2
          /\ translated_blocks[k].size = mode_size + 5
          /\ doc[k].kind = "heading" /\ doc[k].level = 3
          /\ translated_blocks[m].size = mode_size

====
